---- MODULE Spec2Model ----
(***************************************************************************)
(* A model of the parts of the repository that its specification and tests *)
(* speak of, each with a specification of its own:                         *)
(*   Spec        src/src/thread_pool.rs  ThreadPool, new, execute          *)
(*   IterSpec    src/src/closures.rs     Counter and the zip/skip chain    *)
(*   ShoeSpec    src/src/closures.rs     shoes_in_my_size                  *)
(*   CacherSpec  src/src/closures.rs     Cacher                            *)
(*   TestsSpec   src/src/tests.rs        can_hold, add_two, greeting, Guess*)
(*   WorkoutSpec src/src/closures.rs     generate_workout                  *)
(*                                                                         *)
(* thread_pool.rs comes first.  It is a stub: ThreadPool has no fields,    *)
(* new() takes no size and returns Self, and the body of execute is empty. *)
(* The model keeps that: no action starts a worker thread, queues a task   *)
(* or runs one.  What the caller asked for (how many workers it wanted,    *)
(* how many times it called execute) is recorded beside the pool so that   *)
(* the contract of the specification can be compared with what the stub    *)
(* leaves behind.                                                          *)
(***************************************************************************)
EXTENDS Integers, FiniteSets, Sequences, TLC

\* Bounds of the model.
MaxPools == 2      \* pools the caller builds
MaxSize  == 2      \* largest worker count a caller wants
MaxCalls == 2      \* execute calls per pool

Pools   == 1..MaxPools
Workers == 1..MaxSize
Tasks   == 1..MaxCalls

\* pub struct ThreadPool;  -- a unit struct: it holds no worker handles and no
\* queue, so workers[p] and ran[p] are what the process shows, not fields.
VARIABLES
    pool,        \* pool[p]: "absent" (not built), "live", "dropped" (out of scope)
    requested,   \* requested[p]: the worker count the caller of new wanted
    newResult,   \* newResult[p]: "none" before new is called, then what new returned
    workers,     \* workers[p]: the live worker threads the pool owns
    submitted,   \* submitted[p]: number of execute calls made on the pool
    ran          \* ran[p]: pairs <<t, w>>: worker w ran the task of the t-th call

vars == <<pool, requested, newResult, workers, submitted, ran>>

TypeOK ==
    /\ pool \in [Pools -> {"absent", "live", "dropped"}]
    /\ requested \in [Pools -> 0..MaxSize]
    /\ newResult \in [Pools -> {"none", "Ok", "InvalidPoolSize"}]
    /\ workers \in [Pools -> SUBSET Workers]
    /\ submitted \in [Pools -> 0..MaxCalls]
    /\ ran \in [Pools -> SUBSET (Tasks \X Workers)]

Init ==
    /\ pool = [p \in Pools |-> "absent"]
    /\ requested = [p \in Pools |-> 0]
    /\ newResult = [p \in Pools |-> "none"]
    /\ workers = [p \in Pools |-> {}]
    /\ submitted = [p \in Pools |-> 0]
    /\ ran = [p \in Pools |-> {}]

\* A constructor that starts one worker thread per requested worker (and whose
\* pool, having no Drop implementation, never joins them).
NewSpawning(p) ==
    /\ pool[p] = "absent"
    /\ \E size \in 0..MaxSize :
          /\ requested' = [requested EXCEPT ![p] = size]
          /\ workers' = [workers EXCEPT ![p] = 1..size]
    /\ newResult' = [newResult EXCEPT ![p] = "Ok"]
    /\ pool' = [pool EXCEPT ![p] = "live"]
    /\ UNCHANGED <<submitted, ran>>

\* A constructor that hands out a pool that was already dropped.
NewReopening(p) ==
    /\ pool[p] \in {"absent", "dropped"}
    /\ \E size \in 0..MaxSize : requested' = [requested EXCEPT ![p] = size]
    /\ newResult' = [newResult EXCEPT ![p] = "Ok"]
    /\ pool' = [pool EXCEPT ![p] = "live"]
    /\ UNCHANGED <<workers, submitted, ran>>

\* pub fn new() -> Self { Self }
\* new has no parameter: the size the caller wants (size) never reaches it.  It
\* cannot fail (its return type is Self, not a Result) and it starts no thread.
New(p) ==
    /\ pool[p] = "absent"
    /\ \E size \in 0..MaxSize : requested' = [requested EXCEPT ![p] = size]
    /\ newResult' = [newResult EXCEPT ![p] = "Ok"]
    /\ pool' = [pool EXCEPT ![p] = "live"]
    /\ UNCHANGED <<workers, submitted, ran>>

\* An execute that hands the task to an idle worker and so waits for one.
ExecuteWaiting(p) ==
    /\ pool[p] = "live"
    /\ submitted[p] < MaxCalls
    /\ \E w \in workers[p] : \A t \in Tasks : <<t, w>> \notin ran[p]
    /\ submitted' = [submitted EXCEPT ![p] = @ + 1]
    /\ UNCHANGED <<pool, requested, newResult, workers, ran>>

\* pub fn execute(&self) {}
\* execute borrows the pool, so the pool is live; its body is empty: it takes no
\* task, queues nothing and returns at once.  Only the count of calls changes.
Execute(p) ==
    /\ pool[p] = "live"
    /\ submitted[p] < MaxCalls
    /\ submitted' = [submitted EXCEPT ![p] = @ + 1]
    /\ UNCHANGED <<pool, requested, newResult, workers, ran>>

\* The pool goes out of scope (the end of it_works).  ThreadPool implements no
\* Drop: nothing is signalled, drained or joined.
Drop(p) ==
    /\ pool[p] = "live"
    /\ pool' = [pool EXCEPT ![p] = "dropped"]
    /\ UNCHANGED <<requested, newResult, workers, submitted, ran>>

(***************************************************************************)
(* src/src/closures.rs, mod iterators: struct Counter, its Iterator impl,  *)
(* and the two tests that drive it: calling_next_directly calls next six   *)
(* times on one Counter; using_other_itr_trait_methods pulls the chain     *)
(* Counter::new().zip(Counter::new().skip(1)).map(..).filter(..).sum().    *)
(* An Option<T> is a sequence of length at most one: None is <<>>, and     *)
(* Some(v) is <<v>>.  count, the products and the sum are u32; a count    *)
(* never passes 5, so no u32 operation here comes near its range.         *)
(***************************************************************************)

CounterLimit == 5     \* if self.count < 5
SkipCount == 1        \* .skip(1)
FilterModulus == 3    \* x % 3 == 0

MaxNextCalls == 7     \* direct calls of next on the first Counter

None == <<>>
Some(v) == <<v>>

VARIABLES
    counter,      \* the Counter of calling_next_directly: [count |-> ..]
    returned,     \* what its successive next calls returned, in order
    zipA,         \* the first Counter of the chain (left side of zip)
    zipB,         \* the second Counter of the chain (inside skip)
    skipN,        \* Skip's n: elements still to be skipped
    chainPc,      \* where the pull of the chain stands
    held,         \* the item in flight: <<>>, <<a>>, <<a, b>> or <<product>>
    pairs,        \* the pairs zip has yielded, in order
    pulledA,      \* the values the first Counter has handed to zip, in order
    sum           \* the accumulator of sum()

iterVars == <<counter, returned, zipA, zipB, skipN, chainPc, held, pairs, pulledA, sum>>

\* Counter::new: Counter { count: 0 }
CounterNew == [count |-> 0]

\* A next that tests the limit after incrementing.
CounterNextOffByOne(c) ==
    IF c.count <= CounterLimit
    THEN <<[c EXCEPT !.count = c.count + 1], Some(c.count + 1)>>
    ELSE <<c, None>>

\* Iterator::next for Counter: the pair <<counter after the call, result>>.
CounterNext(c) ==
    IF c.count < CounterLimit
    THEN <<[c EXCEPT !.count = c.count + 1], Some(c.count + 1)>>
    ELSE <<c, None>>

\* Iterator::nth(n) as Skip uses it on the inner Counter: n calls of next whose
\* results are discarded (stopping at the first None), then one more whose
\* result is returned.  The pair <<counter after the calls, result>>.
RECURSIVE CounterNth(_, _)
CounterNth(c, n) ==
    IF n = 0 THEN CounterNext(c)
    ELSE LET r == CounterNext(c)
         IN  IF r[2] = None THEN r ELSE CounterNth(r[1], n - 1)

\* A skip that forgets to skip: every call is the inner next.
SkipNextNoSkip(c, n) ==
    LET r == CounterNext(c) IN <<r[1], n, r[2]>>

\* Skip::next: the first call skips n elements with nth(n) and sets n to 0;
\* later calls are the inner next.  <<counter after, n after, result>>.
SkipNext(c, n) ==
    IF n > 0
    THEN LET r == CounterNth(c, n) IN <<r[1], 0, r[2]>>
    ELSE LET r == CounterNext(c) IN <<r[1], 0, r[2]>>

IterInit ==
    /\ counter = CounterNew
    /\ returned = <<>>
    /\ zipA = CounterNew
    /\ zipB = CounterNew
    /\ skipN = SkipCount
    /\ chainPc = "zip_a"
    /\ held = <<>>
    /\ pairs = <<>>
    /\ pulledA = <<>>
    /\ sum = 0

\* calling_next_directly: one more counter.next().
CallNext ==
    /\ Len(returned) < MaxNextCalls
    /\ LET r == CounterNext(counter)
       IN  /\ counter' = r[1]
           /\ returned' = Append(returned, r[2])
    /\ UNCHANGED <<zipA, zipB, skipN, chainPc, held, pairs, pulledA, sum>>

\* Zip::next, first half: let x = self.a.next()?;
ZipPullA ==
    /\ chainPc = "zip_a"
    /\ LET r == CounterNext(zipA)
       IN  /\ zipA' = r[1]
           /\ IF r[2] = None
              THEN /\ chainPc' = "done"
                   /\ UNCHANGED <<held, pulledA>>
              ELSE /\ chainPc' = "zip_b"
                   /\ held' = r[2]
                   /\ pulledA' = Append(pulledA, r[2][1])
    /\ UNCHANGED <<counter, returned, zipB, skipN, pairs, sum>>

\* Zip::next, second half: let y = self.b.next()?; Some((x, y))
ZipPullB ==
    /\ chainPc = "zip_b"
    /\ LET r == SkipNext(zipB, skipN)
       IN  /\ zipB' = r[1]
           /\ skipN' = r[2]
           /\ IF r[3] = None
              THEN /\ chainPc' = "done"
                   /\ held' = <<>>
                   /\ UNCHANGED pairs
              ELSE /\ chainPc' = "map"
                   /\ held' = <<held[1], r[3][1]>>
                   /\ pairs' = Append(pairs, <<held[1], r[3][1]>>)
    /\ UNCHANGED <<counter, returned, zipA, pulledA, sum>>

\* .map(|(a, b)| a * b)
MapStep ==
    /\ chainPc = "map"
    /\ held' = <<held[1] * held[2]>>
    /\ chainPc' = "filter"
    /\ UNCHANGED <<counter, returned, zipA, zipB, skipN, pairs, pulledA, sum>>

\* .filter(|x| x % 3 == 0): a rejected item is dropped and the next is pulled.
FilterStep ==
    /\ chainPc = "filter"
    /\ IF held[1] % FilterModulus = 0
       THEN chainPc' = "sum" /\ UNCHANGED held
       ELSE chainPc' = "zip_a" /\ held' = <<>>
    /\ UNCHANGED <<counter, returned, zipA, zipB, skipN, pairs, pulledA, sum>>

\* .sum(): the accepted item is added to the accumulator.
SumStep ==
    /\ chainPc = "sum"
    /\ sum' = sum + held[1]
    /\ held' = <<>>
    /\ chainPc' = "zip_a"
    /\ UNCHANGED <<counter, returned, zipA, zipB, skipN, pairs, pulledA>>

(***************************************************************************)
(* src/src/closures.rs, mod iterators: struct Shoe and shoes_in_my_size.   *)
(* A Vec<Shoe> is a sequence of records [size, style].                     *)
(***************************************************************************)

MaxShoes == 3         \* longest Vec<Shoe> given to shoes_in_my_size
MaxShoeSize == 2      \* shoe sizes are 1 .. MaxShoeSize

ShoeSizes == 1..MaxShoeSize
Styles == {"sneaker", "boot"}
Shoe == [size : ShoeSizes, style : Styles]

RECURSIVE SeqsUpTo(_, _)
SeqsUpTo(S, n) ==
    IF n = 0 THEN {<<>>}
    ELSE LET shorter == SeqsUpTo(S, n - 1)
         IN  shorter \cup {Append(q, x) : q \in {r \in shorter : Len(r) = n - 1}, x \in S}

VARIABLES
    shoes,        \* the Vec<Shoe> passed in
    shoeSize,     \* the shoe_size passed in
    inMySize      \* None until the call returns, then Some(the returned Vec)

shoeVars == <<shoes, shoeSize, inMySize>>

\* A filter that also keeps the larger shoes.
RECURSIVE ShoesAtLeastMySize(_, _)
ShoesAtLeastMySize(v, shoe_size) ==
    IF v = <<>> THEN <<>>
    ELSE IF Head(v).size >= shoe_size
         THEN <<Head(v)>> \o ShoesAtLeastMySize(Tail(v), shoe_size)
         ELSE ShoesAtLeastMySize(Tail(v), shoe_size)

\* shoes.into_iter().filter(|s| s.size == shoe_size).collect(): the Vec is
\* walked from the front, and each shoe the closure accepts is pushed.
RECURSIVE shoes_in_my_size(_, _)
shoes_in_my_size(v, shoe_size) ==
    IF v = <<>> THEN <<>>
    ELSE IF Head(v).size = shoe_size
         THEN <<Head(v)>> \o shoes_in_my_size(Tail(v), shoe_size)
         ELSE shoes_in_my_size(Tail(v), shoe_size)

\* No call: the state the other specifications leave these variables in.
ShoeIdle ==
    /\ shoes = <<>>
    /\ shoeSize = 0
    /\ inMySize = None

\* A caller about to call shoes_in_my_size(shoes, shoeSize); shoeSize may be a
\* size no shoe has (0).
ShoeInit ==
    /\ shoes \in SeqsUpTo(Shoe, MaxShoes)
    /\ shoeSize \in 0..MaxShoeSize
    /\ inMySize = None

\* let in_my_size = shoes_in_my_size(shoes, n);
CallShoesInMySize ==
    /\ inMySize = None
    /\ inMySize' = Some(shoes_in_my_size(shoes, shoeSize))
    /\ UNCHANGED <<shoes, shoeSize>>

(***************************************************************************)
(* src/src/closures.rs: struct Cacher<T: Fn(u32) -> u32> with its fields   *)
(* calculation and value, Cacher::new and Cacher::value.  The closure is   *)
(* one of a few u32 -> u32 functions; the source's own is |num| num.       *)
(***************************************************************************)

MaxArg == 2           \* value is called with arguments 0 .. MaxArg
MaxValueCalls == 3    \* value calls on one Cacher

Calculations == {"num", "num_plus_one", "two_times_num"}

\* (self.calculation)(arg).  The arguments are small: no u32 overflow.
Calculate(calculation, arg) ==
    CASE calculation = "num" -> arg
      [] calculation = "num_plus_one" -> arg + 1
      [] calculation = "two_times_num" -> 2 * arg

VARIABLES
    cacher,       \* the Cacher: [calculation |-> .., value |-> Option<u32>]
    valueArgs,    \* the arguments of the value calls made, in order
    valueRets,    \* what those calls returned, in order
    executedOn    \* the arguments the calculation was executed on, in order

cacherVars == <<cacher, valueArgs, valueRets, executedOn>>

\* Cacher::new(calculation): Cacher { calculation, value: None }
CacherNew(calculation) == [calculation |-> calculation, value |-> None]

\* A value that forgets to save the result.
CacherValueNoSave(c, arg) ==
    IF c.value # None
    THEN <<c, c.value[1], <<>>>>
    ELSE LET v == Calculate(c.calculation, arg)
         IN  <<c, v, <<arg>>>>

\* Cacher::value(&mut self, arg):
\*   <<the Cacher after the call, the value returned, the arguments the
\*     calculation was executed on during the call>>.
CacherValue(c, arg) ==
    IF c.value # None
    THEN <<c, c.value[1], <<>>>>
    ELSE LET v == Calculate(c.calculation, arg)
         IN  <<[c EXCEPT !.value = Some(v)], v, <<arg>>>>

\* The state the other specifications leave these variables in.
CacherIdle ==
    /\ cacher = CacherNew("num")
    /\ valueArgs = <<>>
    /\ valueRets = <<>>
    /\ executedOn = <<>>

\* let mut c = Cacher::new(calculation);
CacherInit ==
    /\ cacher \in {CacherNew(calculation) : calculation \in Calculations}
    /\ valueArgs = <<>>
    /\ valueRets = <<>>
    /\ executedOn = <<>>

\* c.value(arg)
CallValue(arg) ==
    /\ Len(valueArgs) < MaxValueCalls
    /\ LET r == CacherValue(cacher, arg)
       IN  /\ cacher' = r[1]
           /\ valueRets' = Append(valueRets, r[2])
           /\ executedOn' = executedOn \o r[3]
    /\ valueArgs' = Append(valueArgs, arg)

(***************************************************************************)
(* src/src/tests.rs: Rectangle::can_hold, add_two, greeting and Guess::new *)
(* (structs.rs has the same can_hold).  A String is a sequence of          *)
(* one-character strings.  A call ends in a return or in a panic.          *)
(***************************************************************************)

MaxOffset == 3        \* i32 inputs lie within MaxOffset of 0, 100 and the i32 limits
MaxDim == 2           \* rectangle widths and heights are 0 .. MaxDim
MaxNameLen == 2       \* longest name given to greeting

I32Max == 2147483647
I32Min == -I32Max - 1
GuessLow == 1
GuessHigh == 100

Return(v) == [kind |-> "return", value |-> v]
Panic(m) == [kind |-> "panic", message |-> m]

DigitChars == <<"0", "1", "2", "3", "4", "5", "6", "7", "8", "9">>

\* Display for a non-negative integer: its decimal digits, most significant first.
RECURSIVE DisplayNat(_)
DisplayNat(n) ==
    IF n < 10 THEN <<DigitChars[n + 1]>>
    ELSE Append(DisplayNat(n \div 10), DigitChars[(n % 10) + 1])

\* Display for i32, the {} of format!: a minus sign for a negative value, then the
\* digits of its magnitude (taken digit by digit: the magnitude of i32::MIN is
\* not an i32).
DisplayI32(n) ==
    IF n >= 0 THEN DisplayNat(n)
    ELSE LET last == (10 - (n % 10)) % 10
             rest == (-(n + last)) \div 10
         IN  <<"-">> \o (IF rest = 0 THEN <<>> ELSE DisplayNat(rest))
                     \o <<DigitChars[last + 1]>>

Rectangles == [width : 0..MaxDim, height : 0..MaxDim]

\* A can_hold that accepts equal sides.
can_hold_or_equal(self, other) ==
    IF self.width >= other.width THEN self.height >= other.height ELSE FALSE

\* Rectangle::can_hold: self.width > other.width && self.height > other.height
can_hold(self, other) ==
    IF self.width > other.width THEN self.height > other.height ELSE FALSE

\* An add_two that saturates at i32::MAX.
add_two_saturating(a, overflow_checks) ==
    IF a > I32Max - 2 THEN Return(I32Max) ELSE Return(a + 2)

\* add_two: a + 2 on i32.  When a + 2 is past i32::MAX the build decides: with
\* overflow checks (the debug and test profiles) the addition panics, without
\* them it wraps around to i32::MIN + (a + 2 - 2^31).
add_two(a, overflow_checks) ==
    IF a > I32Max - 2
    THEN IF overflow_checks
         THEN Panic(<<"attempt to add with overflow">>)
         ELSE Return(I32Min + (a - (I32Max - 1)))
    ELSE Return(a + 2)

Hello == <<"H", "e", "l", "l", "o", " ">>

\* The greeting of the commented-out line: String::from("Hello!")
greeting_without_name(name) == <<"H", "e", "l", "l", "o", "!">>

\* greeting: format!("Hello {}", name)
greeting(name) == Hello \o name

\* A Guess::new that checks the lower bound only.
GuessNewNoUpperBound(value) ==
    IF value < GuessLow
    THEN Panic(<<"Guess must be between 1 and 100, instead: ", DisplayI32(value), ".">>)
    ELSE Return([value |-> value])

\* Guess::new: the panic message is the format string with the value displayed
\* in its {}: the pieces before, in and after the hole.
GuessNew(value) ==
    IF value < GuessLow \/ value > GuessHigh
    THEN Panic(<<"Guess must be between 1 and 100, instead: ", DisplayI32(value), ".">>)
    ELSE Return([value |-> value])

I32Inputs ==
    {I32Min + k : k \in 0..MaxOffset} \cup ((-MaxOffset)..MaxOffset)
        \cup ((GuessHigh - MaxOffset)..(GuessHigh + MaxOffset))
        \cup {I32Max - k : k \in 0..MaxOffset}

NameChars == {"C", "l", " "}
Names == SeqsUpTo(NameChars, MaxNameLen)

VARIABLES
    fn,              \* the function called: "Guess::new", "can_hold", "add_two", "greeting"
    value,           \* the i32 argument of Guess::new and add_two
    selfRect,        \* can_hold's self
    otherRect,       \* can_hold's other
    name,            \* greeting's name
    overflowChecks,  \* whether the build checks integer overflow
    outcome          \* None until the call ends, then Some(Return(..)) or Some(Panic(..))

testVars == <<fn, value, selfRect, otherRect, name, overflowChecks, outcome>>

\* No call: the state the other specifications leave these variables in.
TestsIdle ==
    /\ fn = "none"
    /\ value = 0
    /\ selfRect = [width |-> 0, height |-> 0]
    /\ otherRect = [width |-> 0, height |-> 0]
    /\ name = <<>>
    /\ overflowChecks = TRUE
    /\ outcome = None

\* A caller about to call one of the four functions on some input.
TestsInit ==
    /\ fn \in {"Guess::new", "can_hold", "add_two", "greeting"}
    /\ value \in IF fn \in {"Guess::new", "add_two"} THEN I32Inputs ELSE {0}
    /\ selfRect \in IF fn = "can_hold" THEN Rectangles ELSE {[width |-> 0, height |-> 0]}
    /\ otherRect \in IF fn = "can_hold" THEN Rectangles ELSE {[width |-> 0, height |-> 0]}
    /\ name \in IF fn = "greeting" THEN Names ELSE {<<>>}
    /\ overflowChecks \in BOOLEAN
    /\ outcome = None

CallGuessNew ==
    /\ fn = "Guess::new"
    /\ outcome = None
    /\ outcome' = Some(GuessNew(value))
    /\ UNCHANGED <<fn, value, selfRect, otherRect, name, overflowChecks>>

CallCanHold ==
    /\ fn = "can_hold"
    /\ outcome = None
    /\ outcome' = Some(Return(can_hold(selfRect, otherRect)))
    /\ UNCHANGED <<fn, value, selfRect, otherRect, name, overflowChecks>>

CallAddTwo ==
    /\ fn = "add_two"
    /\ outcome = None
    /\ outcome' = Some(add_two(value, overflowChecks))
    /\ UNCHANGED <<fn, value, selfRect, otherRect, name, overflowChecks>>

CallGreeting ==
    /\ fn = "greeting"
    /\ outcome = None
    /\ outcome' = Some(Return(greeting(name)))
    /\ UNCHANGED <<fn, value, selfRect, otherRect, name, overflowChecks>>

(***************************************************************************)
(* src/src/closures.rs: generate_workout(intensity, random_number), which  *)
(* builds a Cacher around the closure |num| { println!; sleep; num } and   *)
(* asks it for its value in the branches that print a number.              *)
(***************************************************************************)

MaxIntensityOffset == 3   \* intensities lie within this of 0 and of the threshold
MaxRandom == 4            \* random_number is 0 .. MaxRandom

IntensityThreshold == 25  \* if intensity < 25
BreakNumber == 3          \* if random_number == 3

Intensities ==
    (0..MaxIntensityOffset)
        \cup ((IntensityThreshold - MaxIntensityOffset)..(IntensityThreshold + MaxIntensityOffset))

VARIABLES
    intensity,        \* the argument intensity
    randomNumber,     \* the argument random_number
    workoutPc,        \* "idle", "start", "situps" (between the two prints), "done"
    expensiveResult,  \* the local Cacher expensive_result
    calcRuns,         \* the arguments the expensive closure was executed on, in order
    printed           \* the lines printed: <<text, number>> or <<text>>

workoutVars == <<intensity, randomNumber, workoutPc, expensiveResult, calcRuns, printed>>

\* generate_workout is not called: the state the other specifications leave.
WorkoutIdle ==
    /\ intensity = 0
    /\ randomNumber = 0
    /\ workoutPc = "idle"
    /\ expensiveResult = CacherNew("num")
    /\ calcRuns = <<>>
    /\ printed = <<>>

\* Entry of generate_workout: let mut expensive_result = Cacher::new(|num| ..);
WorkoutInit ==
    /\ intensity \in Intensities
    /\ randomNumber \in 0..MaxRandom
    /\ workoutPc = "start"
    /\ expensiveResult = CacherNew("num")
    /\ calcRuns = <<>>
    /\ printed = <<>>

\* if intensity < 25 { println!("Today, do {} pushups!", expensive_result.value(intensity));
DoPushups ==
    /\ workoutPc = "start"
    /\ intensity < IntensityThreshold
    /\ LET r == CacherValue(expensiveResult, intensity)
       IN  /\ expensiveResult' = r[1]
           /\ printed' = Append(printed, <<"pushups", r[2]>>)
           /\ calcRuns' = calcRuns \o r[3]
    /\ workoutPc' = "situps"
    /\ UNCHANGED <<intensity, randomNumber>>

\* println!("Next, do {} situps!", expensive_result.value(intensity)); }
DoSitups ==
    /\ workoutPc = "situps"
    /\ LET r == CacherValue(expensiveResult, intensity)
       IN  /\ expensiveResult' = r[1]
           /\ printed' = Append(printed, <<"situps", r[2]>>)
           /\ calcRuns' = calcRuns \o r[3]
    /\ workoutPc' = "done"
    /\ UNCHANGED <<intensity, randomNumber>>

\* else if random_number == 3 { println!("Take a break today! ..."); }
TakeBreak ==
    /\ workoutPc = "start"
    /\ ~(intensity < IntensityThreshold)
    /\ randomNumber = BreakNumber
    /\ printed' = Append(printed, <<"break">>)
    /\ workoutPc' = "done"
    /\ UNCHANGED <<intensity, randomNumber, expensiveResult, calcRuns>>

\* else { println!("Today, run for {} minutes!", expensive_result.value(intensity)); }
DoRun ==
    /\ workoutPc = "start"
    /\ ~(intensity < IntensityThreshold)
    /\ randomNumber # BreakNumber
    /\ LET r == CacherValue(expensiveResult, intensity)
       IN  /\ expensiveResult' = r[1]
           /\ printed' = Append(printed, <<"run", r[2]>>)
           /\ calcRuns' = calcRuns \o r[3]
    /\ workoutPc' = "done"
    /\ UNCHANGED <<intensity, randomNumber>>

(***************************************************************************)
(* The specifications.  Each drives one part of the repository and leaves  *)
(* the variables of the other parts as they start.                         *)
(***************************************************************************)

allVars == <<vars, iterVars, shoeVars, cacherVars, testVars, workoutVars>>

\* thread_pool.rs: a caller building, using and dropping pools.
PoolInit == Init /\ IterInit /\ ShoeIdle /\ CacherIdle /\ TestsIdle /\ WorkoutIdle

Next ==
    \E p \in Pools :
        \/ New(p) /\ UNCHANGED <<iterVars, shoeVars, cacherVars, testVars, workoutVars>>
        \/ Execute(p) /\ UNCHANGED <<iterVars, shoeVars, cacherVars, testVars, workoutVars>>
        \/ Drop(p) /\ UNCHANGED <<iterVars, shoeVars, cacherVars, testVars, workoutVars>>

Spec == PoolInit /\ [][Next]_allVars

\* closures.rs, mod iterators: the two Counter tests, interleaved.
IterNext ==
    \/ CallNext /\ UNCHANGED <<vars, shoeVars, cacherVars, testVars, workoutVars>>
    \/ ZipPullA /\ UNCHANGED <<vars, shoeVars, cacherVars, testVars, workoutVars>>
    \/ ZipPullB /\ UNCHANGED <<vars, shoeVars, cacherVars, testVars, workoutVars>>
    \/ MapStep /\ UNCHANGED <<vars, shoeVars, cacherVars, testVars, workoutVars>>
    \/ FilterStep /\ UNCHANGED <<vars, shoeVars, cacherVars, testVars, workoutVars>>
    \/ SumStep /\ UNCHANGED <<vars, shoeVars, cacherVars, testVars, workoutVars>>

IterSpec == PoolInit /\ [][IterNext]_allVars

\* closures.rs, mod iterators: one call of shoes_in_my_size on any input.
ShoeSpecInit == Init /\ IterInit /\ ShoeInit /\ CacherIdle /\ TestsIdle /\ WorkoutIdle

ShoeNext == CallShoesInMySize /\ UNCHANGED <<vars, iterVars, cacherVars, testVars, workoutVars>>

ShoeSpec == ShoeSpecInit /\ [][ShoeNext]_allVars

\* closures.rs: a Cacher built around any of the closures, then value calls.
CacherSpecInit == Init /\ IterInit /\ ShoeIdle /\ CacherInit /\ TestsIdle /\ WorkoutIdle

CacherNext == (\E arg \in 0..MaxArg : CallValue(arg)) /\ UNCHANGED <<vars, iterVars, shoeVars, testVars, workoutVars>>

CacherSpec == CacherSpecInit /\ [][CacherNext]_allVars

\* tests.rs: one call of one of the functions under test, on any input.
TestsSpecInit == Init /\ IterInit /\ ShoeIdle /\ CacherIdle /\ TestsInit /\ WorkoutIdle

TestsNext ==
    \/ CallGuessNew /\ UNCHANGED <<vars, iterVars, shoeVars, cacherVars, workoutVars>>
    \/ CallCanHold /\ UNCHANGED <<vars, iterVars, shoeVars, cacherVars, workoutVars>>
    \/ CallAddTwo /\ UNCHANGED <<vars, iterVars, shoeVars, cacherVars, workoutVars>>
    \/ CallGreeting /\ UNCHANGED <<vars, iterVars, shoeVars, cacherVars, workoutVars>>

TestsSpec == TestsSpecInit /\ [][TestsNext]_allVars

\* closures.rs: one run of generate_workout on any input.
WorkoutSpecInit == Init /\ IterInit /\ ShoeIdle /\ CacherIdle /\ TestsIdle /\ WorkoutInit

WorkoutNext ==
    \/ DoPushups /\ UNCHANGED <<vars, iterVars, shoeVars, cacherVars, testVars>>
    \/ DoSitups /\ UNCHANGED <<vars, iterVars, shoeVars, cacherVars, testVars>>
    \/ TakeBreak /\ UNCHANGED <<vars, iterVars, shoeVars, cacherVars, testVars>>
    \/ DoRun /\ UNCHANGED <<vars, iterVars, shoeVars, cacherVars, testVars>>

WorkoutSpec == WorkoutSpecInit /\ [][WorkoutNext]_allVars

(***************************************************************************)
(* The claims.                                                             *)
(***************************************************************************)

\* C1: for every size > 0, new(size) succeeds and the pool has exactly size
\* live workers immediately after construction (before any execute call).
C1_NewBuildsSizeWorkers ==
    \A p \in Pools :
        (newResult[p] # "none" /\ requested[p] > 0) =>
            /\ newResult[p] = "Ok"
            /\ (pool[p] = "live" /\ submitted[p] = 0) =>
                   Cardinality(workers[p]) = requested[p]

\* C2: new(0) fails with InvalidPoolSize and produces no pool.
C2_NewZeroFails ==
    \A p \in Pools :
        (newResult[p] # "none" /\ requested[p] = 0) =>
            /\ newResult[p] = "InvalidPoolSize"
            /\ pool[p] = "absent"

\* C4: when teardown of a pool has returned, the task of every execute call made
\* on it before teardown has been run to completion by some worker.
C4_AllTasksCompleteBeforeTeardown ==
    \A p \in Pools :
        pool[p] = "dropped" =>
            \A t \in 1..submitted[p] : \E w \in Workers : <<t, w>> \in ran[p]

\* C5: every submitted task is run by exactly one worker: once the pool is torn
\* down, each task has one worker that ran it, and never two.
C5_EachTaskRunByExactlyOneWorker ==
    \A p \in Pools :
        /\ \A t \in Tasks : Cardinality({w \in Workers : <<t, w>> \in ran[p]}) <= 1
        /\ pool[p] = "dropped" =>
               \A t \in 1..submitted[p] :
                   Cardinality({w \in Workers : <<t, w>> \in ran[p]}) = 1

\* C6: between construction and teardown, after any execute calls, the number of
\* workers of a pool equals the size given to new.
C6_WorkerCountIsSizeGivenToNew ==
    \A p \in Pools :
        pool[p] = "live" => Cardinality(workers[p]) = requested[p]

C8_ExecuteNeverBlocks ==
    \A p \in Pools :
        (pool[p] = "live" /\ submitted[p] < MaxCalls) => ENABLED Execute(p)

\* An execute call has returned while no worker is idle and the task has not
\* completed, and the next call is enabled.
C8_ReturnedWithNoIdleWorker ==
    \E p \in Pools :
        /\ pool[p] = "live"
        /\ submitted[p] >= 1
        /\ workers[p] = {}
        /\ \A w \in Workers : <<submitted[p], w>> \notin ran[p]
        /\ ENABLED Execute(p)

\* C9: shutdown is one-way: no step takes a closed (dropped) pool to any other
\* state.
C9_ClosedNeverReopens ==
    [][\A p \in Pools : pool[p] = "dropped" => pool'[p] = "dropped"]_vars

\* A pool is closed while the caller has gone on to build and use another.
C9_ClosedWhileOtherInUse ==
    \E p, q \in Pools :
        /\ pool[p] = "dropped"
        /\ pool[q] = "live"
        /\ submitted[q] >= 1

\* C11: with a pool built for two or more workers, two tasks submitted
\* back-to-back run concurrently, the second on another worker than the first.
\* Stated at teardown, after which nothing more can run: the first two tasks
\* were run, by two different workers.
C11_TwoTasksOnTwoWorkers ==
    \A p \in Pools :
        (pool[p] = "dropped" /\ requested[p] >= 2 /\ submitted[p] >= 2) =>
            \E w1, w2 \in Workers :
                /\ w1 # w2
                /\ <<1, w1>> \in ran[p]
                /\ <<2, w2>> \in ran[p]

\* C12: the stub does nothing.  new succeeds whatever size the caller wanted and
\* creates no worker; no task is ever run and no thread started; a step that
\* is an execute call changes nothing of the pool but the count of calls.
C12_StubDoesNothing ==
    /\ [](\A p \in Pools :
            /\ workers[p] = {}
            /\ ran[p] = {}
            /\ newResult[p] \in {"none", "Ok"}
            /\ (newResult[p] = "Ok") <=> (pool[p] # "absent"))
    /\ [][\A p \in Pools :
            submitted'[p] # submitted[p] =>
                /\ submitted'[p] = submitted[p] + 1
                /\ pool' = pool
                /\ workers' = workers
                /\ ran' = ran
                /\ newResult' = newResult
                /\ requested' = requested]_allVars

\* new, then execute calls, on a pool whose caller wanted workers: all returned.
C12_NewThenExecutes ==
    \E p \in Pools :
        /\ pool[p] = "live"
        /\ requested[p] >= 1
        /\ submitted[p] >= 2

\* C13: the k-th call of next on a fresh Counter returns Some(k) for
\* 1 <= k <= 5, and the 6th (and every later) call returns None.
C13_NextReturnsOneToFiveThenNone ==
    \A k \in 1..Len(returned) :
        returned[k] = IF k <= 5 THEN Some(k) ELSE None

\* Six calls have been made: five returned Some, the sixth None.
C13_SixCallsMade ==
    /\ Len(returned) >= 6
    /\ returned[5] # None
    /\ returned[6] = None

\* C14: the zip of a fresh Counter with a fresh Counter skipping one element
\* yields exactly (1,2),(2,3),(3,4),(4,5); no pair ever holds the first
\* counter's 5; and the products divisible by 3 sum to 18.
C14_ZipPairsAndSum ==
    /\ \A i \in 1..Len(pairs) : pairs[i][1] # 5
    /\ \A i \in 1..Len(pairs) : pairs[i] = <<i, i + 1>>
    /\ Len(pairs) <= 4
    /\ chainPc = "done" =>
          /\ pairs = << <<1, 2>>, <<2, 3>>, <<3, 4>>, <<4, 5>> >>
          /\ sum = 18

\* The chain has finished, and the first counter did hand its 5 to zip.
C14_ChainDoneAfterFive ==
    /\ chainPc = "done"
    /\ Len(pulledA) = 5
    /\ pulledA[5] = 5
    /\ Len(pairs) = 4

\* C20: shoes_in_my_size(shoes, n) returns exactly the shoes of the input whose
\* size is n: as many as the input has, the i-th returned shoe being the i-th
\* such shoe of the input (so in their original order, each as often as it
\* occurs), and no shoe of another size.
C20_ExactlyTheShoesOfSizeN ==
    inMySize # None =>
        LET out == inMySize[1]
            matching == {j \in 1..Len(shoes) : shoes[j].size = shoeSize}
            Count(q, x) == Cardinality({i \in 1..Len(q) : q[i] = x})
        IN  /\ Len(out) = Cardinality(matching)
            /\ \A i \in 1..Len(out) :
                   /\ out[i].size = shoeSize
                   /\ \E j \in matching :
                          /\ Cardinality({k \in matching : k <= j}) = i
                          /\ out[i] = shoes[j]
            /\ \A x \in Shoe :
                   Count(out, x) = IF x.size = shoeSize THEN Count(shoes, x) ELSE 0

\* The call has returned on an input where a shoe of another size stands between
\* two different shoes of the wanted size.
C20_FilteredAroundOtherSize ==
    /\ inMySize # None
    /\ Len(shoes) = 3
    /\ shoes[1].size = shoeSize
    /\ shoes[2].size # shoeSize
    /\ shoes[3].size = shoeSize
    /\ shoes[1] # shoes[3]
    /\ Len(inMySize[1]) = 2

\* C15: the value field of a Cacher is None from Cacher::new until the first
\* call of value; the first call value(arg) executes the calculation on arg,
\* stores Some(result) and returns result; every later call returns the stored
\* result and does not execute the calculation.
C15_CalculatedOnceThenCached ==
    /\ valueArgs = <<>> => (cacher.value = None /\ executedOn = <<>>)
    /\ valueArgs # <<>> =>
          LET result == Calculate(cacher.calculation, valueArgs[1])
          IN  /\ executedOn = <<valueArgs[1]>>
              /\ cacher.value = Some(result)
              /\ \A k \in 1..Len(valueRets) : valueRets[k] = result
              /\ Len(valueRets) = Len(valueArgs)

\* A later call with another argument, whose own result would differ, has
\* returned the stored result.
C15_LaterCallWithOtherArgument ==
    /\ Len(valueArgs) >= 2
    /\ valueArgs[2] # valueArgs[1]
    /\ Calculate(cacher.calculation, valueArgs[2]) # valueRets[2]
    /\ valueRets[2] = valueRets[1]

\* Reading a displayed integer back: an optional minus sign, then decimal digits.
DigitValue(ch) == CHOOSE d \in 0..9 : DigitChars[d + 1] = ch

RECURSIVE ParseDigits(_, _, _)
ParseDigits(chars, acc, sign) ==
    IF chars = <<>> THEN acc
    ELSE ParseDigits(Tail(chars), acc * 10 + sign * DigitValue(Head(chars)), sign)

ParseI32(chars) ==
    IF Head(chars) = "-" THEN ParseDigits(Tail(chars), 0, -1)
    ELSE ParseDigits(chars, 0, 1)

\* sub occurs in s as a contiguous run of characters.
Contains(s, sub) ==
    \E i \in 0..(Len(s) - Len(sub)) : SubSeq(s, i + 1, i + Len(sub)) = sub

\* C16: Guess::new(value) panics with the message "Guess must be between 1 and
\* 100, instead: <value>." when value < 1 or value > 100 (<value> being the
\* value in decimal, "101" for 101), and for a value in 1..=100 returns a Guess
\* holding that value.
C16_GuessNewPanicsOutsideOneToHundred ==
    (fn = "Guess::new" /\ outcome # None) =>
        LET o == outcome[1]
        IN  IF value < 1 \/ value > 100
            THEN /\ o.kind = "panic"
                 /\ Len(o.message) = 3
                 /\ o.message[1] = "Guess must be between 1 and 100, instead: "
                 /\ o.message[3] = "."
                 /\ ParseI32(o.message[2]) = value
                 /\ Len(o.message[2]) > 1 => o.message[2][1] # "0"
                 /\ value = 101 => o.message[2] = <<"1", "0", "1">>
            ELSE /\ o.kind = "return"
                 /\ o.value = [value |-> value]

\* Guess::new(101), the call of the test greater_than_100, has panicked.
C16_GuessNew101Panicked ==
    /\ fn = "Guess::new"
    /\ value = 101
    /\ outcome # None
    /\ outcome[1].kind = "panic"

\* C17: can_hold(a, b) is true exactly when a.width > b.width and
\* a.height > b.height, both strictly.
C17_CanHoldIffStrictlyLarger ==
    (fn = "can_hold" /\ outcome # None) =>
        /\ outcome[1].kind = "return"
        /\ outcome[1].value \in BOOLEAN
        /\ outcome[1].value <=>
              (selfRect.width > otherRect.width /\ selfRect.height > otherRect.height)

\* can_hold has returned false for a rectangle that is taller but only as wide.
C17_EqualWidthGivesFalse ==
    /\ fn = "can_hold"
    /\ outcome # None
    /\ selfRect.width = otherRect.width
    /\ selfRect.height > otherRect.height
    /\ outcome[1].value = FALSE

\* C18: add_two(a) returns a + 2 when a <= i32::MAX - 2; for a larger a the
\* addition overflows: it does not return a + 2 (it panics, or returns a
\* wrapped value, which is below a).
C18_AddTwoUnlessOverflow ==
    (fn = "add_two" /\ outcome # None) =>
        LET o == outcome[1]
        IN  IF value <= 2147483647 - 2
            THEN o.kind = "return" /\ o.value = value + 2
            ELSE \/ o.kind = "panic"
                 \/ o.kind = "return" /\ o.value < value

\* add_two has been called on i32::MAX in a build without overflow checks and
\* has returned.
C18_AddTwoWrapped ==
    /\ fn = "add_two"
    /\ value = 2147483647
    /\ ~overflowChecks
    /\ outcome # None
    /\ outcome[1].kind = "return"

\* C19: greeting(name) is "Hello " followed by name, and so contains name as a
\* contiguous substring.
C19_GreetingContainsName ==
    (fn = "greeting" /\ outcome # None) =>
        /\ outcome[1].kind = "return"
        /\ Contains(outcome[1].value, name)
        /\ outcome[1].value = <<"H", "e", "l", "l", "o", " ">> \o name

\* greeting has returned for a name of two characters.
C19_GreetedTwoCharName ==
    /\ fn = "greeting"
    /\ Len(name) = 2
    /\ outcome # None

\* C22: when generate_workout(intensity, random_number) has finished, the
\* expensive calculation was executed exactly once if intensity < 25 (value was
\* called twice and both calls yielded the same number), exactly once if
\* intensity >= 25 and random_number # 3, and not at all if intensity >= 25 and
\* random_number = 3.
C22_ExpensiveCalculationRuns ==
    workoutPc = "done" =>
        IF intensity < 25
        THEN /\ Len(calcRuns) = 1
             /\ Len(printed) = 2
             /\ printed[1][1] = "pushups" /\ printed[2][1] = "situps"
             /\ printed[1][2] = printed[2][2]
        ELSE IF randomNumber # 3
             THEN Len(calcRuns) = 1 /\ Len(printed) = 1 /\ printed[1][1] = "run"
             ELSE Len(calcRuns) = 0 /\ printed = << <<"break">> >>

\* generate_workout has finished on an intensity below 25, after two value calls.
C22_TwoValueCallsDone ==
    /\ workoutPc = "done"
    /\ intensity < 25
    /\ Len(printed) = 2
    /\ calcRuns = <<intensity>>

====
